---- MODULE Spec2Model ----
(***************************************************************************)
(* Chat front end: the Message Store (useChatStore), the Session Registry  *)
(* (useChatListStore) and the authentication store (useAuthStore).         *)
(*                                                                         *)
(* Strings that the code slices (message content, titles) are sequences of *)
(* one-character strings; ids are strings.  crypto.randomUUID() is the     *)
(* n-th value of an injective enumeration: it never returns a value that   *)
(* was returned before or that a caller typed in.                          *)
(***************************************************************************)
EXTENDS Integers, Sequences, FiniteSets, TLC

----------------------------------------------------------------------------
(* Bound of the exploration: the number of calls (store operations and     *)
(* clock ticks) in a run.  It also bounds the ids issued, the sessions, the *)
(* messages and the clock.                                                  *)

MaxCalls == 5

(* Program constants *)

TitleLen == 40

NULL == "null"

NewChatTitle == <<"N", "e", "w", " ", "C", "h", "a", "t">>

----------------------------------------------------------------------------
(* Inputs *)

LongText == [i \in 1..(TitleLen + 2) |-> IF i > TitleLen THEN "z" ELSE "a"]
EditedText == <<"e", "d">>
PromptTitle == <<"t">>

Contents == {LongText}
Roles == {"user", "assistant"}

----------------------------------------------------------------------------
(* JavaScript helpers *)

Min(a, b) == IF a < b THEN a ELSE b

\* String.prototype.slice(start, end) for 0 <= start <= end
Slice(s, start, end) == SubSeq(s, start + 1, Min(end, Len(s)))

\* !id for a string-or-null value
Falsy(id) == id = NULL \/ id = ""

\* the n-th value crypto.randomUUID() returns
\* mutation: every call gives the same id
UUIDSame(n) == "uuid-1"

UUID(n) == "uuid-" \o ToString(n)

EmptyMap == [k \in {} |-> <<>>]

\* { ...m, [k]: v }
Put(m, k, v) == [j \in DOMAIN m \cup {k} |-> IF j = k THEN v ELSE m[j]]

\* const copy = { ...m }; delete copy[k]
Remove(m, k) == [j \in DOMAIN m \ {k} |-> m[j]]

\* m[k] || []
GetOrEmpty(m, k) == IF k \in DOMAIN m THEN m[k] ELSE <<>>

----------------------------------------------------------------------------
VARIABLES
    chats,              \* useChatListStore.chats
    activeChatId,       \* useChatStore.activeChatId
    messagesByChatId,   \* useChatStore.messagesByChatId
    user,               \* useAuthStore.user
    token,              \* useAuthStore.token
    authToken,          \* localStorage["auth_token"]
    now,                \* the clock read by Date.now() / new Date()
    uuidCount,          \* number of crypto.randomUUID() calls so far
    calls,              \* number of calls made so far
    pc,                 \* position inside useAuthStore.logout
    op                  \* the last store call: name, arguments, result

vars == <<chats, activeChatId, messagesByChatId, user, token, authToken,
          now, uuidCount, calls, pc, op>>

chatVars == <<chats, activeChatId, messagesByChatId>>
authVars == <<user, token, authToken>>

Call(name, chatId, msgId, role, content, ret, threw) ==
    [name |-> name, chatId |-> chatId, msgId |-> msgId, role |-> role,
     content |-> content, ret |-> ret, threw |-> threw]

IssuedIds == {UUID(n) : n \in 1..uuidCount}
ArgIds == IssuedIds

MsgIds == {ToString(t) : t \in 0..now}

\* a call starts when no logout is under way
Enter ==
    /\ pc = "idle"
    /\ calls < MaxCalls
    /\ calls' = calls + 1

Init ==
    /\ chats = <<>>
    /\ activeChatId = NULL
    /\ messagesByChatId = EmptyMap
    /\ user = NULL
    /\ token = NULL
    /\ authToken = NULL
    /\ now = 0
    /\ uuidCount = 0
    /\ calls = 0
    /\ pc = "idle"
    /\ op = Call("init", NULL, NULL, NULL, <<>>, NULL, FALSE)

----------------------------------------------------------------------------
(* Session Registry: useChatListStore *)

\* mutation: the new session is put behind the others
addChatLast(list, chat) == list \o <<chat>>

addChat(list, chat) == <<chat>> \o list

\* mutation: the id test is dropped, every session gets the title
renameChatAll(list, id, title) ==
    [i \in 1..Len(list) |-> [list[i] EXCEPT !.title = title]]

renameChat(list, id, title) ==
    [i \in 1..Len(list) |->
        IF list[i].id = id THEN [list[i] EXCEPT !.title = title] ELSE list[i]]

RECURSIVE deleteChat(_, _)
deleteChat(list, id) ==
    IF list = <<>> THEN <<>>
    ELSE IF Head(list).id # id
         THEN <<Head(list)>> \o deleteChat(Tail(list), id)
         ELSE deleteChat(Tail(list), id)

\* mutation: the registry has no clearAll, so logout's clearAll?.() does
\* nothing
clearAllMissing == chats

clearAll == <<>>

----------------------------------------------------------------------------
(* Message Store: useChatStore *)

createNewChat ==
    /\ Enter
    /\ LET id == UUID(uuidCount + 1) IN
        /\ uuidCount' = uuidCount + 1
        /\ chats' = addChat(chats, [id |-> id, title |-> NewChatTitle,
                                    createdAt |-> now])
        /\ activeChatId' = id
        /\ messagesByChatId' = Put(messagesByChatId, id, <<>>)
        /\ op' = Call("createNewChat", NULL, NULL, NULL, <<>>, id, FALSE)
    /\ UNCHANGED <<authVars, now, pc>>

\* mutation: the message list of a new id is not initialised
setActiveChatNoInit(id) ==
    /\ Enter
    /\ activeChatId' = id
    /\ op' = Call("setActiveChat", id, NULL, NULL, <<>>, NULL, FALSE)
    /\ UNCHANGED <<chats, messagesByChatId, authVars, now, uuidCount, pc>>

\* mutation: switching to a session starts it from an empty message list
setActiveChatResets(id) ==
    /\ Enter
    /\ activeChatId' = id
    /\ messagesByChatId' = Put(messagesByChatId, id, <<>>)
    /\ op' = Call("setActiveChat", id, NULL, NULL, <<>>, NULL, FALSE)
    /\ UNCHANGED <<chats, authVars, now, uuidCount, pc>>

setActiveChat(id) ==
    /\ Enter
    /\ activeChatId' = id
    /\ messagesByChatId' = Put(messagesByChatId, id,
                               GetOrEmpty(messagesByChatId, id))
    /\ op' = Call("setActiveChat", id, NULL, NULL, <<>>, NULL, FALSE)
    /\ UNCHANGED <<chats, authVars, now, uuidCount, pc>>

\* target of addMessage: a fresh session when chatId is null
TargetId(chatId) == IF Falsy(chatId) THEN UUID(uuidCount + 1) ELSE chatId

\* mutation: the session created for a null target is not registered
AutoCreateSkipped(list, chatId) == list

\* "Auto-create chat if none exists"
AutoCreate(list, chatId) ==
    IF Falsy(chatId)
    THEN addChat(list, [id |-> TargetId(chatId), title |-> NewChatTitle,
                        createdAt |-> now])
    ELSE list

\* mutation: every user message renames, not only the first
AutoRenameAnyLength(list, id, message, messages) ==
    IF message.role = "user"
    THEN renameChat(list, id, Slice(message.content, 0, TitleLen))
    ELSE list

\* "Auto rename on first user message"
AutoRename(list, id, message, messages) ==
    IF message.role = "user" /\ Len(messages) = 0
    THEN renameChat(list, id, Slice(message.content, 0, TitleLen))
    ELSE list

\* mutation: a message for a given session leaves the active pointer alone
addMessageKeepsActive(chatId, message) ==
    /\ Enter
    /\ LET id == TargetId(chatId)
           messages == GetOrEmpty(messagesByChatId, id)
       IN  /\ chats' = AutoRename(AutoCreate(chats, chatId), id, message,
                                  messages)
           /\ activeChatId' = IF Falsy(chatId) THEN id ELSE activeChatId
           /\ messagesByChatId' = Put(messagesByChatId, id,
                                      Append(messages, message))
    /\ uuidCount' = IF Falsy(chatId) THEN uuidCount + 1 ELSE uuidCount
    /\ op' = Call("addMessage", chatId, message.id, message.role,
                  message.content, NULL, FALSE)
    /\ UNCHANGED <<authVars, now, pc>>

addMessage(chatId, message) ==
    /\ Enter
    /\ LET id == TargetId(chatId)
           messages == GetOrEmpty(messagesByChatId, id)
       IN  /\ chats' = AutoRename(AutoCreate(chats, chatId), id, message,
                                  messages)
           /\ activeChatId' = id
           /\ messagesByChatId' = Put(messagesByChatId, id,
                                      Append(messages, message))
    /\ uuidCount' = IF Falsy(chatId) THEN uuidCount + 1 ELSE uuidCount
    /\ op' = Call("addMessage", chatId, message.id, message.role,
                  message.content, NULL, FALSE)
    /\ UNCHANGED <<authVars, now, pc>>

\* mutation: the messages that are not edited are dropped
MapContentOnlyEdited(msgs, id, content) ==
    SelectSeq([i \in 1..Len(msgs) |-> [msgs[i] EXCEPT !.content = content]],
              LAMBDA m : m.id = id)

\* mutation: the id test is dropped, every message gets the content
MapContentAll(msgs, id, content) ==
    [i \in 1..Len(msgs) |-> [msgs[i] EXCEPT !.content = content]]

\* msgs.map((msg) => msg.id === id ? { ...msg, content } : msg)
MapContent(msgs, id, content) ==
    [i \in 1..Len(msgs) |->
        IF msgs[i].id = id THEN [msgs[i] EXCEPT !.content = content]
        ELSE msgs[i]]

\* reading .map of state.messagesByChatId[chatId] throws a TypeError when
\* chatId is not a key; the updater then never returns and set() stores nothing
updateMessage(chatId, id, content) ==
    /\ Enter
    /\ IF Falsy(chatId)
       THEN /\ messagesByChatId' = messagesByChatId
            /\ op' = Call("updateMessage", chatId, id, NULL, content, NULL,
                          FALSE)
       ELSE IF chatId \notin DOMAIN messagesByChatId
       THEN /\ messagesByChatId' = messagesByChatId
            /\ op' = Call("updateMessage", chatId, id, NULL, content, NULL,
                          TRUE)
       ELSE /\ messagesByChatId' =
                   Put(messagesByChatId, chatId,
                       MapContent(messagesByChatId[chatId], id, content))
            /\ op' = Call("updateMessage", chatId, id, NULL, content, NULL,
                          FALSE)
    /\ UNCHANGED <<chats, activeChatId, authVars, now, uuidCount, pc>>

clearChat(chatId) ==
    /\ Enter
    /\ activeChatId' = NULL
    /\ messagesByChatId' = Remove(messagesByChatId, chatId)
    /\ op' = Call("clearChat", chatId, NULL, NULL, <<>>, NULL, FALSE)
    /\ UNCHANGED <<chats, authVars, now, uuidCount, pc>>

\* the state clearAllChats stores
ClearedChats == [activeChatId |-> NULL, messagesByChatId |-> EmptyMap]

clearAllChats ==
    /\ Enter
    /\ activeChatId' = ClearedChats.activeChatId
    /\ messagesByChatId' = ClearedChats.messagesByChatId
    /\ op' = Call("clearAllChats", NULL, NULL, NULL, <<>>, NULL, FALSE)
    /\ UNCHANGED <<chats, authVars, now, uuidCount, pc>>

----------------------------------------------------------------------------
(* Direct calls of the Session Registry *)

RenameChatCall(id, title) ==
    /\ Enter
    /\ chats' = renameChat(chats, id, title)
    /\ op' = Call("renameChat", id, NULL, NULL, title, NULL, FALSE)
    /\ UNCHANGED <<activeChatId, messagesByChatId, authVars, now, uuidCount,
                   pc>>

\* mutation: deleting a session also drops its messages and the active
\* pointer
DeleteChatCascades(id) ==
    /\ Enter
    /\ chats' = deleteChat(chats, id)
    /\ activeChatId' = NULL
    /\ messagesByChatId' = Remove(messagesByChatId, id)
    /\ op' = Call("deleteChat", id, NULL, NULL, <<>>, NULL, FALSE)
    /\ UNCHANGED <<authVars, now, uuidCount, pc>>

DeleteChatCall(id) ==
    /\ Enter
    /\ chats' = deleteChat(chats, id)
    /\ op' = Call("deleteChat", id, NULL, NULL, <<>>, NULL, FALSE)
    /\ UNCHANGED <<activeChatId, messagesByChatId, authVars, now, uuidCount,
                   pc>>

ClearAllCall ==
    /\ Enter
    /\ chats' = clearAll
    /\ op' = Call("clearAll", NULL, NULL, NULL, <<>>, NULL, FALSE)
    /\ UNCHANGED <<activeChatId, messagesByChatId, authVars, now, uuidCount,
                   pc>>

----------------------------------------------------------------------------
(* Authentication store: useAuthStore *)

setAuth(u, t) ==
    /\ Enter
    /\ authToken' = t
    /\ user' = u
    /\ token' = t
    /\ op' = Call("setAuth", NULL, NULL, NULL, <<>>, NULL, FALSE)
    /\ UNCHANGED <<chatVars, now, uuidCount, pc>>

\* logout, statement by statement; each store write notifies its
\* subscribers before the next statement runs
logoutRemoveItem ==
    /\ Enter
    /\ authToken' = NULL
    /\ pc' = "logout:clearAllChats"
    /\ op' = Call("logout", NULL, NULL, NULL, <<>>, NULL, FALSE)
    /\ UNCHANGED <<chatVars, user, token, now, uuidCount>>

logoutClearAllChats ==
    /\ pc = "logout:clearAllChats"
    /\ activeChatId' = ClearedChats.activeChatId
    /\ messagesByChatId' = ClearedChats.messagesByChatId
    /\ pc' = "logout:clearAll"
    /\ UNCHANGED <<calls, chats, authVars, now, uuidCount, op>>

logoutClearAll ==
    /\ pc = "logout:clearAll"
    /\ chats' = clearAll
    /\ pc' = "logout:set"
    /\ UNCHANGED <<calls, activeChatId, messagesByChatId, authVars, now, uuidCount,
                   op>>

logoutSet ==
    /\ pc = "logout:set"
    /\ user' = NULL
    /\ token' = NULL
    /\ pc' = "idle"
    /\ UNCHANGED <<calls, chatVars, authToken, now, uuidCount, op>>

----------------------------------------------------------------------------
Tick ==
    /\ Enter
    /\ now' = now + 1
    /\ op' = Call("tick", NULL, NULL, NULL, <<>>, NULL, FALSE)
    /\ UNCHANGED <<chatVars, authVars, uuidCount, pc>>

Message(role, content) ==
    [id |-> ToString(now), role |-> role, content |-> content,
     timestamp |-> now]

Next ==
    \/ createNewChat
    \/ \E id \in ArgIds : setActiveChat(id)
    \/ \E id \in ArgIds \cup {NULL}, r \in Roles, c \in Contents :
            addMessage(id, Message(r, c))
    \/ \E id \in ArgIds \cup {NULL}, m \in MsgIds :
            updateMessage(id, m, EditedText)
    \/ \E id \in ArgIds : clearChat(id)
    \/ clearAllChats
    \/ \E id \in ArgIds : RenameChatCall(id, PromptTitle)
    \/ \E id \in ArgIds : DeleteChatCall(id)
    \/ ClearAllCall
    \/ Tick

Spec == Init /\ [][Next]_vars

\* the authentication store over chat stores filled by the composer's calls
NextAuth ==
    \/ createNewChat
    \/ \E id \in ArgIds : setActiveChat(id)
    \/ \E id \in ArgIds \cup {NULL}, r \in Roles, c \in Contents :
            addMessage(id, Message(r, c))
    \/ setAuth("user", "token")
    \/ logoutRemoveItem
    \/ logoutClearAllChats
    \/ logoutClearAll
    \/ logoutSet
    \/ Tick

SpecAuth == Init /\ [][NextAuth]_vars

----------------------------------------------------------------------------
(* Vocabulary of the properties *)

Ids(list) == {list[i].id : i \in 1..Len(list)}

Keys == DOMAIN messagesByChatId

\* t is the first TitleLen characters of c
IsFirst40(t, c) ==
    /\ Len(t) = Min(TitleLen, Len(c))
    /\ \A k \in 1..Len(t) : t[k] = c[k]

WasEmpty(id) == id \notin Keys \/ messagesByChatId[id] = <<>>

\* C1: addMessage sets the registry title of the target session to the
\* first 40 characters of the content exactly when the message is a user
\* message and the target had no messages before; every other title, and the
\* target's title in every other case, is what it was (a session the call
\* itself created has "New Chat").
C1_AutoRename ==
    [][op'.name = "addMessage" =>
        LET d == Len(chats') - Len(chats)
            first == op'.role = "user"
        IN  /\ d \in {0, 1}
            /\ \A i \in 1..Len(chats) :
                 /\ chats'[i + d].id = chats[i].id
                 /\ IF first /\ chats[i].id = op'.chatId
                            /\ WasEmpty(chats[i].id)
                    THEN IsFirst40(chats'[i + d].title, op'.content)
                    ELSE chats'[i + d].title = chats[i].title
            /\ d = 1 =>
                 IF first THEN IsFirst40(chats'[1].title, op'.content)
                 ELSE chats'[1].title = NewChatTitle
    ]_vars

\* a first user message longer than 40 characters has renamed its session
C1_Witness ==
    /\ op.name = "addMessage"
    /\ op.role = "user"
    /\ op.chatId # NULL
    /\ Len(op.content) > TitleLen
    /\ op.chatId \in Keys
    /\ Len(messagesByChatId[op.chatId]) = 1
    /\ \E i \in 1..Len(chats) :
         /\ chats[i].id = op.chatId
         /\ Len(chats[i].title) = TitleLen
         /\ IsFirst40(chats[i].title, op.content)

\* C2: addMessage with a null target adds exactly one registry entry, with
\* an id neither store had; the message is the only message of that session
\* and the session is active.
C2_AppendToNull ==
    [][(op'.name = "addMessage" /\ op'.chatId = NULL) =>
        /\ Len(chats') = Len(chats) + 1
        /\ \A i \in 1..Len(chats) : chats'[i + 1].id = chats[i].id
        /\ LET id == chats'[1].id
           IN  /\ id \notin Ids(chats)
               /\ id \notin Keys
               /\ DOMAIN messagesByChatId' = Keys \cup {id}
               /\ Len(messagesByChatId'[id]) = 1
               /\ messagesByChatId'[id][1].id = op'.msgId
               /\ messagesByChatId'[id][1].role = op'.role
               /\ messagesByChatId'[id][1].content = op'.content
               /\ activeChatId' = id
    ]_vars

\* a send with no target has added a second session
C2_Witness ==
    /\ op.name = "addMessage"
    /\ op.chatId = NULL
    /\ Len(chats) >= 2
    /\ activeChatId = chats[1].id
    /\ activeChatId \in Keys
    /\ Len(messagesByChatId[activeChatId]) = 1

\* C3: createNewChat returns an id neither store had; the registry has it
\* at index 0 with title "New Chat", the mapping has it with no messages and
\* it is the active session.
C3_CreateSession ==
    [][op'.name = "createNewChat" =>
        LET id == op'.ret
        IN  /\ id \notin Ids(chats)
            /\ id \notin Keys
            /\ Len(chats') = Len(chats) + 1
            /\ chats'[1].id = id
            /\ chats'[1].title = NewChatTitle
            /\ id \in DOMAIN messagesByChatId'
            /\ messagesByChatId'[id] = <<>>
            /\ activeChatId' = id
    ]_vars

\* a session was created in front of an existing one
C3_Witness ==
    /\ op.name = "createNewChat"
    /\ Len(chats) >= 2
    /\ chats[1].id = op.ret
    /\ chats[2].id # op.ret
    /\ activeChatId = op.ret

\* C4: clearChat clears the active pointer only if the cleared session was
\* the active one, and leaves it alone when another session is active.
C4_ClearOnlyActive ==
    [][op'.name = "clearChat" =>
        /\ activeChatId' \in {activeChatId, NULL}
        /\ activeChatId # op'.chatId => activeChatId' = activeChatId
    ]_vars

\* C5: updateMessage with a null or unknown session raises no error and
\* changes neither store.
C5_UpdateUnknownIsNoOp ==
    [][(op'.name = "updateMessage"
            /\ (op'.chatId = NULL \/ op'.chatId \notin Keys)) =>
        /\ ~op'.threw
        /\ chatVars' = chatVars
    ]_vars

\* C6: an active session that has a message list is a session of the
\* registry.
C6_ActiveIsRegistered ==
    (activeChatId # NULL /\ activeChatId \in Keys)
        => activeChatId \in Ids(chats)

\* C7: a non-null active pointer is a key of the mapping.
C7_ActiveIsKey == activeChatId # NULL => activeChatId \in Keys

\* a deleted session was made active again and got its message list
C7_Witness ==
    /\ op.name = "setActiveChat"
    /\ activeChatId = op.chatId
    /\ activeChatId \notin Ids(chats)
    /\ activeChatId \in Keys

\* C8: during logout the token is never already discarded while a store
\* still holds chat data.
C8_ClearBeforeToken ==
    (pc # "idle" /\ token # NULL /\ authToken = NULL)
        => (chats = <<>> /\ Keys = {})

\* C9: after the two clear-all calls of logout both stores are empty and no
\* session is active.
C9_LogoutEmpties ==
    (op.name = "logout" /\ pc \in {"logout:set", "idle"})
        => (chats = <<>> /\ Keys = {} /\ activeChatId = NULL)

\* a logged-in user with at least one session has logged out
C9_Witness ==
    /\ op.name = "logout"
    /\ pc = "idle"
    /\ uuidCount > 0
    /\ user = NULL
    /\ token = NULL
    /\ authToken = NULL

\* C10: updateMessage on a known session keeps the length of its sequence
\* and every message's id, role and timestamp in place, sets the content of
\* the messages whose id is messageId and of no other, and leaves the other
\* sessions and the active pointer alone.
C10_UpdateFrame ==
    [][(op'.name = "updateMessage" /\ op'.chatId \in Keys) =>
        LET old == messagesByChatId[op'.chatId]
            new == messagesByChatId'[op'.chatId]
        IN  /\ ~op'.threw
            /\ DOMAIN messagesByChatId' = Keys
            /\ Len(new) = Len(old)
            /\ \A i \in 1..Len(old) :
                 /\ new[i].id = old[i].id
                 /\ new[i].role = old[i].role
                 /\ new[i].timestamp = old[i].timestamp
                 /\ new[i].content = IF old[i].id = op'.msgId
                                     THEN op'.content ELSE old[i].content
            /\ \A k \in Keys \ {op'.chatId} :
                 messagesByChatId'[k] = messagesByChatId[k]
            /\ activeChatId' = activeChatId
    ]_vars

\* one of two messages of a session was edited while another session has
\* messages of its own
C10_Witness ==
    /\ op.name = "updateMessage"
    /\ op.chatId \in Keys
    /\ \E i, j \in 1..Len(messagesByChatId[op.chatId]) :
         /\ messagesByChatId[op.chatId][i].id = op.msgId
         /\ messagesByChatId[op.chatId][i].content = op.content
         /\ messagesByChatId[op.chatId][j].id # op.msgId
         /\ messagesByChatId[op.chatId][j].content # op.content
    /\ \E k \in Keys \ {op.chatId} : messagesByChatId[k] # <<>>

----------------------------------------------------------------------------
(* Search: SearchModal.tsx *)

MaxSessions == 3

Apple == <<"A", "p", "p", "l", "e">>
Banana == <<"B", "a", "n", "a", "n", "a">>
Cabbage == <<"C", "a", "b", "b", "a", "g", "e">>
PaddedTitle == <<" ", "A", "b">>

SearchTitles == {Apple, Banana, Cabbage, PaddedTitle}

Queries ==
    { <<>>, <<" ", "\t">>, <<"a">>, <<"A", "P">>, <<" ", "b", " ">>,
      <<"b", " ", "\t", "a">>, <<"z">> }

\* the characters \s matches
IsSpace(c) == c \in {" ", "\t", "\n"}

\* String.prototype.toLowerCase, letter by letter
LowerChar(c) ==
    CASE c = "A" -> "a"
      [] c = "B" -> "b"
      [] c = "C" -> "c"
      [] c = "P" -> "p"
      [] OTHER -> c

toLowerCase(s) == [i \in 1..Len(s) |-> LowerChar(s[i])]

RECURSIVE trimStart(_)
trimStart(s) ==
    IF s # <<>> /\ IsSpace(Head(s)) THEN trimStart(Tail(s)) ELSE s

RECURSIVE trimEnd(_)
trimEnd(s) ==
    IF s # <<>> /\ IsSpace(s[Len(s)])
    THEN trimEnd(SubSeq(s, 1, Len(s) - 1)) ELSE s

\* String.prototype.trim
trim(s) == trimEnd(trimStart(s))

normalize(s) == trim(toLowerCase(s))

\* s.split(/\s+/): cur is the piece being read
RECURSIVE SplitFrom(_, _)
SplitFrom(rest, cur) ==
    IF rest = <<>> THEN <<cur>>
    ELSE IF IsSpace(Head(rest))
         THEN <<cur>> \o SplitFrom(trimStart(Tail(rest)), <<>>)
         ELSE SplitFrom(Tail(rest), Append(cur, Head(rest)))

split(s) == SplitFrom(s, <<>>)

\* String.prototype.includes
includes(text, tok) ==
    \E k \in 0..(Len(text) - Len(tok)) :
        SubSeq(text, k + 1, k + Len(tok)) = tok

\* String.prototype.startsWith
startsWith(text, tok) ==
    Len(tok) <= Len(text) /\ SubSeq(text, 1, Len(tok)) = tok

RECURSIVE scoreMatch(_, _)
scoreMatch(text, tokens) ==
    IF tokens = <<>> THEN 0
    ELSE (IF includes(text, Head(tokens)) THEN 10 ELSE 0)
         + (IF startsWith(text, Head(tokens)) THEN 15 ELSE 0)
         + scoreMatch(text, Tail(tokens))

\* .filter((r) => r.score > 0)
RECURSIVE FilterPositive(_)
FilterPositive(rs) ==
    IF rs = <<>> THEN <<>>
    ELSE IF Head(rs).score > 0
         THEN <<Head(rs)>> \o FilterPositive(Tail(rs))
         ELSE FilterPositive(Tail(rs))

\* mutation: an element is put in front of the elements of its own score
InsertBeforeTies(sorted, x) ==
    LET lower == {i \in 1..Len(sorted) : sorted[i].score <= x.score}
        at == IF lower = {} THEN Len(sorted) + 1
              ELSE CHOOSE i \in lower : \A j \in lower : i <= j
    IN  SubSeq(sorted, 1, at - 1) \o <<x>> \o SubSeq(sorted, at, Len(sorted))

\* x goes behind every element whose score is not lower than its own
InsertDesc(sorted, x) ==
    LET lower == {i \in 1..Len(sorted) : sorted[i].score < x.score}
        at == IF lower = {} THEN Len(sorted) + 1
              ELSE CHOOSE i \in lower : \A j \in lower : i <= j
    IN  SubSeq(sorted, 1, at - 1) \o <<x>> \o SubSeq(sorted, at, Len(sorted))

\* .sort((a, b) => b.score - a.score): Array.prototype.sort is stable
RECURSIVE SortDesc(_)
SortDesc(rs) ==
    IF Len(rs) <= 1 THEN rs
    ELSE InsertDesc(SortDesc(SubSeq(rs, 1, Len(rs) - 1)), rs[Len(rs)])

\* mutation: a blank query finds nothing
searchChatsBlankFindsNothing(query, list) ==
    IF trim(query) = <<>> THEN <<>>
    ELSE LET tokens == split(normalize(query))
             scored == [i \in 1..Len(list) |->
                          [chat |-> list[i],
                           score |-> scoreMatch(normalize(list[i].title),
                                                tokens)]]
             sorted == SortDesc(FilterPositive(scored))
         IN  [i \in 1..Len(sorted) |-> sorted[i].chat]

searchChats(query, list) ==
    IF trim(query) = <<>> THEN list
    ELSE LET tokens == split(normalize(query))
             scored == [i \in 1..Len(list) |->
                          [chat |-> list[i],
                           score |-> scoreMatch(normalize(list[i].title),
                                                tokens)]]
             sorted == SortDesc(FilterPositive(scored))
         IN  [i \in 1..Len(sorted) |-> sorted[i].chat]

\* the registry lists the search runs over
SessionLists ==
    UNION { [1..n -> SearchTitles] : n \in 0..MaxSessions }

InitSearch ==
    /\ \E titles \in SessionLists :
         /\ chats = [i \in 1..Len(titles) |->
                       [id |-> UUID(i), title |-> titles[i], createdAt |-> 0]]
         /\ uuidCount = Len(titles)
    /\ activeChatId = NULL
    /\ messagesByChatId = EmptyMap
    /\ user = NULL
    /\ token = NULL
    /\ authToken = NULL
    /\ now = 0
    /\ calls = 0
    /\ pc = "idle"
    /\ op = Call("init", NULL, NULL, NULL, <<>>, NULL, FALSE)

\* SearchModal's useMemo: results = searchChats(query, chats)
Search(query) ==
    /\ pc = "idle"
    /\ op' = Call("searchChats", NULL, NULL, NULL, query,
                  searchChats(query, chats), FALSE)
    /\ UNCHANGED <<chatVars, authVars, now, uuidCount, calls, pc>>

NextSearch == \E q \in Queries : Search(q)

SpecSearch == InitSearch /\ [][NextSearch]_vars

(* Properties of the search *)

\* tok occurs in text / at the start of text
OccursIn(tok, text) ==
    \E k \in 1..(Len(text) + 1) :
        \A j \in 1..Len(tok) :
            k + j - 1 <= Len(text) /\ text[k + j - 1] = tok[j]

IsPrefixOf(tok, text) ==
    Len(tok) <= Len(text) /\ \A j \in 1..Len(tok) : text[j] = tok[j]

\* 10 for every token in the title, 15 more when the title starts with it
RECURSIVE TitleScore(_, _)
TitleScore(tokens, text) ==
    IF tokens = <<>> THEN 0
    ELSE (IF OccursIn(Head(tokens), text) THEN 10 ELSE 0)
         + (IF IsPrefixOf(Head(tokens), text) THEN 15 ELSE 0)
         + TitleScore(Tail(tokens), text)

ScoreOf(query, chat) ==
    TitleScore(split(normalize(query)), normalize(chat.title))

\* C11: for a query that is not blank the result holds exactly the sessions
\* of positive score, by descending score, sessions of equal score in their
\* order in the list.
C11_SearchRanks ==
    (op.name = "searchChats" /\ trim(op.content) # <<>>) =>
        LET sc(i) == ScoreOf(op.content, chats[i])
            hits == {i \in 1..Len(chats) : sc(i) > 0}
            rank(i) == 1 + Cardinality(
                {j \in hits : sc(j) > sc(i) \/ (sc(j) = sc(i) /\ j < i)})
        IN  /\ Len(op.ret) = Cardinality(hits)
            /\ \A i \in hits : op.ret[rank(i)] = chats[i]

\* "a" over Banana, Cabbage, Apple finds Apple, Banana, Cabbage
C11_Witness ==
    /\ op.name = "searchChats"
    /\ op.content = <<"a">>
    /\ Len(chats) = 3
    /\ chats[1].title = Banana
    /\ chats[2].title = Cabbage
    /\ chats[3].title = Apple
    /\ op.ret = <<chats[3], chats[1], chats[2]>>

\* C12: a query that is blank returns the list it was given, every session
\* in its place.
C12_BlankQueryIsIdentity ==
    (op.name = "searchChats" /\ trim(op.content) = <<>>) => op.ret = chats

\* a query of white space over three sessions
C12_Witness ==
    /\ op.name = "searchChats"
    /\ op.content # <<>>
    /\ trim(op.content) = <<>>
    /\ Len(chats) = 3
    /\ op.ret = chats

----------------------------------------------------------------------------
(* Properties of single calls of the two stores *)

ListOf(id) == IF id \in Keys THEN messagesByChatId[id] ELSE <<>>

C14_AppendToGiven ==
    [][(op'.name = "addMessage" /\ ~Falsy(op'.chatId)) =>
        LET id == op'.chatId
            old == ListOf(id)
            new == messagesByChatId'[id]
        IN  /\ DOMAIN messagesByChatId' = Keys \cup {id}
            /\ Len(new) = Len(old) + 1
            /\ \A k \in 1..Len(old) : new[k] = old[k]
            /\ new[Len(new)].id = op'.msgId
            /\ new[Len(new)].role = op'.role
            /\ new[Len(new)].content = op'.content
            /\ \A k \in Keys \ {id} :
                    messagesByChatId'[k] = messagesByChatId[k]
            /\ activeChatId' = id
    ]_vars

\* two sessions are created, the second is active, and the message goes to
\* the first
C14_Witness ==
    /\ op.name = "addMessage"
    /\ op.chatId = UUID(1)
    /\ calls = 3
    /\ uuidCount = 2
    /\ Len(chats) = 2
    /\ activeChatId = UUID(1)
    /\ Len(messagesByChatId[UUID(1)]) = 1

\* C15: deleteChat(id) leaves the registry entries whose id is not id, in
\* their order; it changes nothing when no entry has the id; the message
\* lists and the active pointer are what they were.
C15_DeleteFrame ==
    [][op'.name = "deleteChat" =>
        /\ chats' = SelectSeq(chats, LAMBDA c : c.id # op'.chatId)
        /\ (op'.chatId \notin Ids(chats) => chats' = chats)
        /\ messagesByChatId' = messagesByChatId
        /\ activeChatId' = activeChatId
    ]_vars

\* the middle one of three sessions is deleted; the message store still has it
C15_Witness ==
    /\ op.name = "deleteChat"
    /\ op.chatId = UUID(2)
    /\ uuidCount = 3
    /\ Len(chats) = 2
    /\ chats[1].id = UUID(3)
    /\ chats[2].id = UUID(1)
    /\ UUID(2) \in Keys

\* C16: renameChat(id, title) gives the title to the entry whose id is id
\* and to no other; every entry keeps its id, its createdAt and its place;
\* when no entry has the id the registry is unchanged and nothing is thrown.
C16_RenameFrame ==
    [][op'.name = "renameChat" =>
        /\ Len(chats') = Len(chats)
        /\ \A i \in 1..Len(chats) :
            /\ chats'[i].id = chats[i].id
            /\ chats'[i].createdAt = chats[i].createdAt
            /\ chats'[i].title = IF chats[i].id = op'.chatId
                                 THEN op'.content ELSE chats[i].title
        /\ (op'.chatId \notin Ids(chats) => chats' = chats)
        /\ ~op'.threw
    ]_vars

\* the older of two sessions is renamed
C16_Witness ==
    /\ op.name = "renameChat"
    /\ Len(chats) = 2
    /\ op.chatId = chats[2].id
    /\ chats[2].title = PromptTitle
    /\ chats[1].title = NewChatTitle

\* C17: a step of any operation but clearChat and clearAllChats keeps every
\* session of the mapping, and the ids of its messages before the step are
\* the first ids of its messages after it, in the same order.
C17_AppendOnly ==
    [][op'.name \notin {"clearChat", "clearAllChats"} =>
        \A k \in Keys :
            /\ k \in DOMAIN messagesByChatId'
            /\ Len(messagesByChatId'[k]) >= Len(messagesByChatId[k])
            /\ \A i \in 1..Len(messagesByChatId[k]) :
                    messagesByChatId'[k][i].id = messagesByChatId[k][i].id
    ]_vars

\* an edit in a session of two messages
C17_Witness ==
    /\ op.name = "updateMessage"
    /\ ~op.threw
    /\ \E k \in Keys :
        /\ Len(messagesByChatId[k]) = 2
        /\ messagesByChatId[k][2].content = EditedText
        /\ messagesByChatId[k][1].content # EditedText

----------------------------------------------------------------------------
(* The handlers of the interface over the two stores *)

\* !isStreaming && (input.trim().length > 0 || files.length > 0), with no
\* stream running and no files
canSend(input) == Len(trim(input)) > 0

\* mutation: the composer hands addMessage the null it found, so addMessage
\* creates a session of its own
handleSubmitCreatesTwice(input) ==
    /\ Enter
    /\ canSend(input)
    /\ LET none == Falsy(activeChatId)
           first == UUID(uuidCount + 1)
           chatId == IF none THEN UUID(uuidCount + 2) ELSE activeChatId
           entry(id) == [id |-> id, title |-> NewChatTitle,
                         createdAt |-> now]
           created == IF none
                      THEN addChat(addChat(chats, entry(first)),
                                   entry(chatId))
                      ELSE chats
           lists == IF none THEN Put(messagesByChatId, first, <<>>)
                    ELSE messagesByChatId
           message == Message("user", input)
           messages == GetOrEmpty(lists, chatId)
       IN  /\ chats' = AutoRename(created, chatId, message, messages)
           /\ activeChatId' = chatId
           /\ messagesByChatId' = Put(lists, chatId,
                                      Append(messages, message))
           /\ uuidCount' = IF none THEN uuidCount + 2 ELSE uuidCount
           /\ op' = Call("handleSubmit", chatId, message.id, message.role,
                         message.content, NULL, FALSE)
    /\ UNCHANGED <<authVars, now, pc>>

\* the composer: a session is created when none is active, then the input
\* is added as a user message whose id is the clock reading
handleSubmit(input) ==
    /\ Enter
    /\ canSend(input)
    /\ LET none == Falsy(activeChatId)
           chatId == IF none THEN UUID(uuidCount + 1) ELSE activeChatId
           created == IF none
                      THEN addChat(chats, [id |-> chatId,
                                           title |-> NewChatTitle,
                                           createdAt |-> now])
                      ELSE chats
           lists == IF none THEN Put(messagesByChatId, chatId, <<>>)
                    ELSE messagesByChatId
           message == Message("user", input)
           messages == GetOrEmpty(lists, chatId)
       IN  /\ chats' = AutoRename(AutoCreate(created, chatId), chatId,
                                  message, messages)
           /\ activeChatId' = chatId
           /\ messagesByChatId' = Put(lists, chatId,
                                      Append(messages, message))
           /\ uuidCount' = IF none THEN uuidCount + 1 ELSE uuidCount
           /\ op' = Call("handleSubmit", chatId, message.id, message.role,
                         message.content, NULL, FALSE)
    /\ UNCHANGED <<authVars, now, pc>>

\* mutation: Delete in the sidebar forgets the message store
DeleteClickRegistryOnly(id) ==
    /\ Enter
    /\ chats' = deleteChat(chats, id)
    /\ op' = Call("deleteClick", id, NULL, NULL, <<>>, NULL, FALSE)
    /\ UNCHANGED <<activeChatId, messagesByChatId, authVars, now, uuidCount,
                   pc>>

\* Delete in the sidebar: deleteChat(chat.id); clearChat(chat.id)
DeleteClick(id) ==
    /\ Enter
    /\ chats' = deleteChat(chats, id)
    /\ activeChatId' = NULL
    /\ messagesByChatId' = Remove(messagesByChatId, id)
    /\ op' = Call("deleteClick", id, NULL, NULL, <<>>, NULL, FALSE)
    /\ UNCHANGED <<authVars, now, uuidCount, pc>>

\* saving an edit: updateMessage(activeChatId, id, next)
handleSave(id, next) == updateMessage(activeChatId, id, next)

NextApp ==
    \/ \E c \in Contents : handleSubmit(c)
    \/ createNewChat
    \/ \E id \in ArgIds : setActiveChat(id)
    \/ \E id \in Ids(chats) : RenameChatCall(id, PromptTitle)
    \/ \E id \in Ids(chats) : DeleteClick(id)
    \/ \E m \in MsgIds : handleSave(m, EditedText)
    \/ Tick

SpecApp == Init /\ [][NextApp]_vars

\* C19: in the message list of any one session no two messages have the
\* same id.
C19_DistinctIds ==
    \A k \in Keys :
        \A i, j \in 1..Len(messagesByChatId[k]) :
            i # j => messagesByChatId[k][i].id # messagesByChatId[k][j].id

----------------------------------------------------------------------------
(* createNewChat and addMessage(null, message), one store write at a time:
   the registry's set() runs its subscribers before the message store's
   set() is reached *)

\* the message an addMessage call in progress was given
Pending ==
    [id |-> op.msgId, role |-> op.role, content |-> op.content,
     timestamp |-> now]

\* useChatListStore.getState().addChat(...) of createNewChat
createNewChatAddChat ==
    /\ Enter
    /\ uuidCount' = uuidCount + 1
    /\ chats' = addChat(chats, [id |-> UUID(uuidCount + 1),
                                title |-> NewChatTitle, createdAt |-> now])
    /\ pc' = "createNewChat:set"
    /\ op' = Call("createNewChat", NULL, NULL, NULL, <<>>,
                  UUID(uuidCount + 1), FALSE)
    /\ UNCHANGED <<activeChatId, messagesByChatId, authVars, now>>

\* set((state) => ...) of createNewChat
createNewChatSet ==
    /\ pc = "createNewChat:set"
    /\ activeChatId' = UUID(uuidCount)
    /\ messagesByChatId' = Put(messagesByChatId, UUID(uuidCount), <<>>)
    /\ pc' = "idle"
    /\ UNCHANGED <<chats, authVars, now, uuidCount, calls, op>>

\* addChat(...) inside the updater of addMessage(null, message)
addMessageAddChat(message) ==
    /\ Enter
    /\ uuidCount' = uuidCount + 1
    /\ chats' = AutoCreate(chats, NULL)
    /\ pc' = "addMessage:renameChat"
    /\ op' = Call("addMessage", NULL, message.id, message.role,
                  message.content, NULL, FALSE)
    /\ UNCHANGED <<activeChatId, messagesByChatId, authVars, now>>

\* renameChat(...) inside the updater, for a first user message
addMessageRenameChat ==
    /\ pc = "addMessage:renameChat"
    /\ chats' = AutoRename(chats, UUID(uuidCount), Pending,
                           GetOrEmpty(messagesByChatId, UUID(uuidCount)))
    /\ pc' = "addMessage:set"
    /\ UNCHANGED <<activeChatId, messagesByChatId, authVars, now, uuidCount,
                   calls, op>>

\* the state the updater returns is stored
addMessageSet ==
    /\ pc = "addMessage:set"
    /\ activeChatId' = UUID(uuidCount)
    /\ messagesByChatId' =
            Put(messagesByChatId, UUID(uuidCount),
                Append(GetOrEmpty(messagesByChatId, UUID(uuidCount)),
                       Pending))
    /\ pc' = "idle"
    /\ UNCHANGED <<chats, authVars, now, uuidCount, calls, op>>

NextSteps ==
    \/ createNewChatAddChat
    \/ createNewChatSet
    \/ \E r \in Roles, c \in Contents : addMessageAddChat(Message(r, c))
    \/ addMessageRenameChat
    \/ addMessageSet
    \/ \E id \in ArgIds, r \in Roles, c \in Contents :
            addMessage(id, Message(r, c))
    \/ \E id \in ArgIds : setActiveChat(id)
    \/ \E id \in ArgIds : clearChat(id)
    \/ Tick

SpecSteps == Init /\ [][NextSteps]_vars

\* C18: while createNewChat or addMessage(null, message) is between two of
\* its store writes, a registry that has the new session goes with a message
\* store that has it as a key and as the active session.
C18_BothStoresAtOnce ==
    pc # "idle" =>
        (UUID(uuidCount) \in Ids(chats) =>
            /\ UUID(uuidCount) \in Keys
            /\ activeChatId = UUID(uuidCount))

----------------------------------------------------------------------------
(* Properties of the registry's ids and of the handlers *)

\* C21: no two entries of the registry have the same id.
C21_RegistryIdsDistinct ==
    \A i, j \in 1..Len(chats) : i # j => chats[i].id # chats[j].id

\* a session created by createNewChat next to one created by
\* addMessage(null, message)
C21_Witness ==
    /\ Len(chats) >= 2
    /\ \E i, j \in 1..Len(chats) :
        /\ chats[i].title = NewChatTitle
        /\ chats[j].title # NewChatTitle
        /\ chats[j].title # PromptTitle
    /\ op.name = "addMessage"
    /\ Falsy(op.chatId)

\* C22: after Delete in the sidebar on a session, the session is no entry of
\* the registry and no key of the mapping, and it is not the active session.
C22_DeleteLeavesNoOrphan ==
    op.name = "deleteClick" =>
        /\ op.chatId \notin Ids(chats)
        /\ op.chatId \notin Keys
        /\ activeChatId # op.chatId

\* one of two sessions with messages is deleted, the other stays
C22_Witness ==
    /\ op.name = "deleteClick"
    /\ Len(chats) = 1
    /\ Cardinality(Keys) = 1
    /\ \E k \in Keys : k \in Ids(chats) /\ Len(messagesByChatId[k]) >= 1
    /\ uuidCount = 2

\* C23: a submit of the composer with no session active adds one session to
\* the registry, in front; the message is the only message of that session;
\* the session is active; its title is the first 40 characters of the
\* content, not "New Chat".
C23_SubmitCreatesOne ==
    [][(op'.name = "handleSubmit" /\ Falsy(activeChatId)) =>
        LET id == op'.chatId
        IN  /\ Len(chats') = Len(chats) + 1
            /\ Tail(chats') = chats
            /\ chats'[1].id = id
            /\ id \notin Ids(chats)
            /\ id \in DOMAIN messagesByChatId'
            /\ Len(messagesByChatId'[id]) = 1
            /\ messagesByChatId'[id][1].id = op'.msgId
            /\ messagesByChatId'[id][1].role = "user"
            /\ messagesByChatId'[id][1].content = op'.content
            /\ activeChatId' = id
            /\ IsFirst40(chats'[1].title, op'.content)
            /\ chats'[1].title # NewChatTitle
    ]_vars

\* the first thing done is a submit
C23_Witness ==
    /\ op.name = "handleSubmit"
    /\ calls = 1
    /\ Len(chats) = 1
    /\ activeChatId = chats[1].id
    /\ Len(chats[1].title) = TitleLen
    /\ Len(messagesByChatId[activeChatId]) = 1

====
